---- MODULE Spec2Model ----
(***************************************************************************)
(* A model of src/src/stack_aggregator.py: StackAggregator.execute and the  *)
(* functions it calls (get_dependency_data, aggregate_stack_data,           *)
(* perform_license_analysis and the three _extract_* helpers), with the     *)
(* metadata store, the license-scoring service and the relational store as  *)
(* the environment.                                                         *)
(*                                                                          *)
(* Python values are represented as follows.  A dict is a record; a key    *)
(* that is absent is a field that is absent (Get models dict.get).  The     *)
(* empty dict is the empty function <<>>.  A list is a sequence.  None,     *)
(* where a string is expected, is the reserved string None; an optional     *)
(* boolean is <<>> (None) or <<b>>.  A list whose order comes from          *)
(* iterating a Python set (unknown_dependencies, distinct_licenses) is kept *)
(* as a set, since its order is not fixed by the code.                      *)
(***************************************************************************)
EXTENDS Integers, Sequences, FiniteSets, TLC

VARIABLES
    calls,        \* invocations of execute still to be made: <<[aggregated, persist], ...>>
    pc,           \* position of the worker: idle, fetch, finish, returned, raised
    aggregated,   \* execute: the batch description of the invocation in progress
    persist,      \* execute: its persist flag
    mi,           \* execute: index (from 1) of the manifest of the for loop (line 406)
    di,           \* get_dependency_data: index (from 1) of elem in resolved (line 360)
    result,       \* get_dependency_data: the list of records collected so far (line 359)
    queryLog,     \* what happened to each elem of the manifest being fetched
    stack_data,   \* execute: the reports appended so far (line 401)
    fetched,      \* per manifest already aggregated: what get_dependency_data returned
    licLog,       \* per manifest already aggregated: the license-service outcome
    licCalls,     \* license-service requests posted by the invocation in progress
    started_at,   \* execute: the audit start stamp (line 399)
    ret,          \* the envelope execute returned, or <<>>
    err,          \* the exception that escaped execute, or None
    clock,        \* the wall clock datetime.utcnow() reads
    store,        \* the worker_results table: a set of rows
    nextId,       \* the table's primary-key sequence
    writes,       \* rows written by the invocation in progress
    prev          \* the previous finished invocation, or <<>>

vars == <<calls, pc, aggregated, persist, mi, di, result, queryLog, stack_data,
          fetched, licLog, licCalls, started_at, ret, err, clock, store, nextId,
          writes, prev>>

\* ------------------------------------------------------------------ bounds
MaxManifests == 2
MaxDeps == 2
MaxCalls == 2

\* ------------------------------------------------------------- Python data
None == "None"
EmptyDict == <<>>

\* dict.get(k, default)
Get(d, k, default) == IF k \in DOMAIN d THEN d[k] ELSE default

\* d[k] = v on a dict
With(d, k, v) == [f \in DOMAIN d \cup {k} |-> IF f = k THEN v ELSE d[f]]

\* the set of members of a list
Range(s) == {s[i] : i \in 1..Len(s)}

\* all lists over S of length at most n
SeqsUpTo(S, n) == UNION {[1..k -> S] : k \in 0..n}

RECURSIVE Flatten(_)
\* the concatenation of a list of lists
Flatten(ss) == IF Len(ss) = 0 THEN <<>> ELSE Head(ss) \o Flatten(Tail(ss))

\* -------------------------------------------------- the metadata store's data
\* Two raw records as valueMap() returns them: every scalar wrapped in a list.
\* RecordB has no declared_licenses and no package facet.
RecordA ==
    [version |-> [pname |-> <<"a">>, version |-> <<"1">>, pecosystem |-> <<"maven">>,
                  declared_licenses |-> <<"MIT", "GPL">>],
     package |-> [latest_version |-> <<"1">>]]
RecordB ==
    [version |-> [pname |-> <<"b">>, version |-> <<"1">>, pecosystem |-> <<"maven">>]]

\* extract_component_details, restricted to the fields this file reads again
\* (name, version, ecosystem, licenses); the github, code-metrics, security and
\* latest-version fields are written once and never read here.
extract_component_details(component) ==
    LET ver == Get(component, "version", EmptyDict)
    IN  [ecosystem |-> Get(ver, "pecosystem", <<"">>)[1],
         name      |-> Get(ver, "pname", <<"">>)[1],
         version   |-> Get(ver, "version", <<"">>)[1],
         licenses  |-> Get(ver, "declared_licenses", <<>>)]

\* What one POST to the metadata store can do (lines 372-388).
GraphException == [exc |-> TRUE, status_code |-> 0, body |-> EmptyDict]
GraphNon200    == [exc |-> FALSE, status_code |-> 500, body |-> EmptyDict]
GraphNoResult  == [exc |-> FALSE, status_code |-> 200, body |-> [requestId |-> "x"]]
GraphEmptyData == [exc |-> FALSE, status_code |-> 200, body |-> [result |-> [data |-> <<>>]]]
GraphFound(rec) == [exc |-> FALSE, status_code |-> 200, body |-> [result |-> [data |-> <<rec>>]]]
GraphRecords == <<RecordA, RecordB>>

\* lines 372-388: the list of records after one response
HandleGraphResponse(res, o) ==
    IF o.exc THEN res
    ELSE IF o.status_code = 200
         THEN IF "result" \notin DOMAIN o.body THEN res
              ELSE IF Len(o.body.result.data) = 0 THEN res
              ELSE Append(res, o.body.result)
         ELSE res

\* line 361: the elem is skipped without a query
MissingNameOrVersion(elem) == elem.package = None \/ elem.version = None

\* ------------------------------------------- the license-service response
\* A response is a dict with the optional keys status, stack_license, packages,
\* conflict_packages and outlier_packages.  A dict whose keys the code lists
\* (a conflict_packages entry, outlier_packages) is the list of its <<key, value>>
\* items in iteration order.

\* no assert: an entry without exactly two keys is dropped
extract_conflict_packages_DropMalformed(license_service_output) ==
    IF DOMAIN license_service_output = {} THEN [raised |-> FALSE, value |-> <<>>]
    ELSE LET conflict_packages ==
                 SelectSeq(Get(license_service_output, "conflict_packages", <<>>),
                           LAMBDA conflict_pair : Len(conflict_pair) = 2)
         IN  [raised |-> FALSE,
              value |-> [i \in 1..Len(conflict_packages) |->
                           [package1 |-> conflict_packages[i][1][1],
                            license1 |-> conflict_packages[i][1][2],
                            package2 |-> conflict_packages[i][2][1],
                            license2 |-> conflict_packages[i][2][2]]]]

\* lines 122-138: [raised, value]; raised is the AssertionError of line 129
extract_conflict_packages(license_service_output) ==
    IF DOMAIN license_service_output = {} THEN [raised |-> FALSE, value |-> <<>>]
    ELSE LET conflict_packages == Get(license_service_output, "conflict_packages", <<>>)
         IN  IF \E i \in 1..Len(conflict_packages) : Len(conflict_packages[i]) # 2
             THEN [raised |-> TRUE, value |-> <<>>]
             ELSE [raised |-> FALSE,
                   value |-> [i \in 1..Len(conflict_packages) |->
                                [package1 |-> conflict_packages[i][1][1],
                                 license1 |-> conflict_packages[i][1][2],
                                 package2 |-> conflict_packages[i][2][1],
                                 license2 |-> conflict_packages[i][2][2]]]]

\* lines 168-179: the {package, license} findings of one component
ReallyUnknownOf(comp) ==
    LET license_analysis == Get(comp, "license_analysis", EmptyDict)
        comp_unknown_licenses == Get(license_analysis, "unknown_licenses", <<>>)
    IN  IF Get(license_analysis, "status", "") = "Unknown"
        THEN [i \in 1..Len(comp_unknown_licenses) |->
                [package |-> Get(comp, "package", "Unknown"),
                 license |-> comp_unknown_licenses[i]]]
        ELSE <<>>

\* lines 184-186: the components the conflict branch looks into
ConflictComponents(license_service_output) ==
    IF Get(license_service_output, "status", "") = "ComponentLicenseConflict"
    THEN SelectSeq(Get(license_service_output, "packages", <<>>),
                   LAMBDA comp : Get(Get(comp, "license_analysis", EmptyDict),
                                     "status", "") = "Conflict")
    ELSE <<>>

\* lines 191-198: the pairs of one component in conflict
ConflictPairsOf(comp) ==
    Get(Get(comp, "license_analysis", EmptyDict), "conflict_licenses", <<>>)

\* lines 162-206: [raised, value]; raised is the AssertionError of line 194.
\* An empty response returns the bare list of line 165, any other the dict of
\* line 202.
extract_unknown_licenses(license_service_output) ==
    IF DOMAIN license_service_output = {} THEN [raised |-> FALSE, value |-> <<>>]
    ELSE LET list_components == Get(license_service_output, "packages", <<>>)
             really_unknown_licenses ==
                 IF Get(license_service_output, "status", "") = "Unknown"
                 THEN Flatten([i \in 1..Len(list_components) |->
                                 ReallyUnknownOf(list_components[i])])
                 ELSE <<>>
             conflicting == ConflictComponents(license_service_output)
         IN  IF \E i \in 1..Len(conflicting) :
                    \E j \in 1..Len(ConflictPairsOf(conflicting[i])) :
                        Len(ConflictPairsOf(conflicting[i])[j]) # 2
             THEN [raised |-> TRUE, value |-> <<>>]
             ELSE [raised |-> FALSE,
                   value |->
                     [really_unknown |-> really_unknown_licenses,
                      component_conflict |->
                        [i \in 1..Len(conflicting) |->
                           [package |-> Get(conflicting[i], "package", "Unknown"),
                            conflict_licenses |->
                              [j \in 1..Len(ConflictPairsOf(conflicting[i])) |->
                                 [license1 |-> ConflictPairsOf(conflicting[i])[j][1],
                                  license2 |-> ConflictPairsOf(conflicting[i])[j][2]]]]]]]

\* lines 218-229
extract_license_outliers(license_service_output) ==
    IF DOMAIN license_service_output = {} THEN <<>>
    ELSE LET outlier_packages == Get(license_service_output, "outlier_packages", <<>>)
         IN  [i \in 1..Len(outlier_packages) |->
                [package |-> outlier_packages[i][1], license |-> outlier_packages[i][2]]]

\* lines 257-261: the components of the response that match one dependency
MatchingComponents(list_components, dep) ==
    {i \in 1..Len(list_components) :
        /\ Get(dep, "name", "") = Get(list_components[i], "package", "")
        /\ Get(dep, "version", "") = Get(list_components[i], "version", "")}

\* lines 257-261: the dependency after the double loop (the last match wins)
AttachLicenseAnalysis(list_components, dep) ==
    LET m == MatchingComponents(list_components, dep)
    IN  IF m = {} THEN dep
        ELSE With(dep, "license_analysis",
                  Get(list_components[CHOOSE i \in m : \A j \in m : j <= i],
                      "license_analysis", EmptyDict))

\* only the dependencies the response names are kept
AnalyzedAfterLicense_OnlyMatched(list_components, dependencies) ==
    LET named == SelectSeq(dependencies,
                           LAMBDA dep : MatchingComponents(list_components, dep) # {})
    IN  [i \in 1..Len(named) |-> AttachLicenseAnalysis(list_components, named[i])]

\* lines 256-261: the dependencies after the double loop
AnalyzedAfterLicense(list_components, dependencies) ==
    [i \in 1..Len(dependencies) |->
        AttachLicenseAnalysis(list_components, dependencies[i])]

\* the status initialised to a status string instead of None
NoLicenseAnalysis_StatusUnknown ==
    [status |-> "Unknown", f8a_stack_licenses |-> <<>>, unknown_licenses |-> <<>>,
     conflict_packages |-> <<>>, outlier_packages |-> <<>>]

\* lines 250-254 and 271-277: the output when the response was never read
NoLicenseAnalysis ==
    [status |-> None, f8a_stack_licenses |-> <<>>, unknown_licenses |-> <<>>,
     conflict_packages |-> <<>>, outlier_packages |-> <<>>]

\* lines 232-278.  o is what the POST of line 243 did: [exc |-> TRUE] is a
\* requests.exceptions.RequestException, otherwise o.json is the decoded body.
\* The payload built from license_score_list does not decide the response here:
\* the service may answer anything.  [raised, output, dependencies]; raised is
\* an AssertionError of an extractor, which nothing in this function catches.
perform_license_analysis(dependencies, o) ==
    IF o.exc
    THEN [raised |-> FALSE, output |-> NoLicenseAnalysis, dependencies |-> dependencies]
    ELSE LET resp == o.json
             list_components == Get(resp, "packages", <<>>)
             attached == AnalyzedAfterLicense(list_components, dependencies)
             stack_license_ == Get(resp, "stack_license", None)
             unknown == extract_unknown_licenses(resp)
             conflict == extract_conflict_packages(resp)
         IN  IF unknown.raised \/ conflict.raised
             THEN [raised |-> TRUE, output |-> EmptyDict, dependencies |-> attached]
             ELSE [raised |-> FALSE,
                   output |-> [status |-> Get(resp, "status", None),
                               f8a_stack_licenses |->
                                   IF stack_license_ # None THEN <<stack_license_>>
                                   ELSE <<>>,
                               unknown_licenses |-> unknown.value,
                               conflict_packages |-> conflict.value,
                               outlier_packages |-> extract_license_outliers(resp)],
                   dependencies |-> attached]

\* the flag read from the conflict-package list instead of the stack-license list
StackLicenseConflict_FromConflictPackages(persistFlag, license_analysis) ==
    IF persistFlag
    THEN <<Len(Get(license_analysis, "conflict_packages", <<>>)) > 0>>
    ELSE <<>>

\* lines 325 and 328: the flag, None when license analysis is skipped
StackLicenseConflict(persistFlag, license_analysis) ==
    IF persistFlag
    THEN <<Len(Get(license_analysis, "f8a_stack_licenses", <<>>)) = 0>>
    ELSE <<>>

\* the skipped license analysis initialised like a failed one
DryLicenseAnalysis_Defaults ==
    [status |-> None, f8a_stack_licenses |-> <<>>, unknown_licenses |-> <<>>,
     conflict_packages |-> <<>>, outlier_packages |-> <<>>]

\* line 327: license_analysis when license analysis is skipped
DryLicenseAnalysis == EmptyDict

\* every requested pair reported unknown, analyzed or not
UnknownDependencies_NoDifference(all_dependencies, analyzed_dependencies) ==
    {[name |-> p[1], version |-> p[2]] : p \in all_dependencies}

\* lines 333-335: the requested pairs that were not analyzed
UnknownDependencies(all_dependencies, analyzed_dependencies) ==
    {[name |-> p[1], version |-> p[2]] : p \in all_dependencies \ analyzed_dependencies}

\* lines 300-354.  o is the license-service outcome, read only when persist.
\* [raised, data].
aggregate_stack_data(stack, manifest_file, ecosystem, deps, manifest_file_path, persistFlag, o) ==
    LET found == SelectSeq(Get(stack, "result", <<>>),
                           LAMBDA component : Len(Get(component, "data", <<>>)) > 0)
        extracted == [i \in 1..Len(found) |-> extract_component_details(found[i].data[1])]
        licenses == Flatten([i \in 1..Len(extracted) |-> extracted[i].licenses])
        stack_distinct_licenses == Range(licenses)
        analysis == IF persistFlag THEN perform_license_analysis(extracted, o)
                    ELSE [raised |-> FALSE, output |-> DryLicenseAnalysis,
                          dependencies |-> extracted]
        dependencies == analysis.dependencies
        stack_license_conflict == StackLicenseConflict(persistFlag, analysis.output)
        all_dependencies == {<<d.package, d.version>> : d \in Range(deps)}
        analyzed_dependencies == {<<d.name, d.version>> : d \in Range(dependencies)}
        unknown_dependencies == UnknownDependencies(all_dependencies, analyzed_dependencies)
    IN  [raised |-> analysis.raised,
         data |->
           [manifest_name |-> manifest_file,
            manifest_file_path |-> manifest_file_path,
            user_stack_info |->
              [ecosystem |-> ecosystem,
               analyzed_dependencies_count |-> Len(dependencies),
               analyzed_dependencies |-> dependencies,
               unknown_dependencies |-> unknown_dependencies,
               unknown_dependencies_count |-> Cardinality(unknown_dependencies),
               recommendation_ready |-> TRUE,
               total_licenses |-> Cardinality(stack_distinct_licenses),
               distinct_licenses |-> stack_distinct_licenses,
               stack_license_conflict |-> stack_license_conflict,
               dependencies |-> deps,
               license_analysis |-> analysis.output]]]

\* What the POST of line 243 can do: a transport failure, or a decoded body.
LicenseTransportFailure == [exc |-> TRUE, json |-> EmptyDict]
LicenseResponse(body) == [exc |-> FALSE, json |-> body]
ComponentA(analysis) == [package |-> "a", version |-> "1", license_analysis |-> analysis]
LicenseOutcomes ==
    << LicenseTransportFailure,
       LicenseResponse(EmptyDict),
       LicenseResponse([status |-> "Successful", stack_license |-> "MIT",
                        packages |-> <<ComponentA([status |-> "Successful"])>>,
                        outlier_packages |-> << <<"b", "GPL">> >>]),
       LicenseResponse([status |-> "Unknown",
                        packages |-> <<ComponentA([status |-> "Unknown",
                                                   unknown_licenses |-> <<"X", "Y">>])>>]),
       LicenseResponse([status |-> "ComponentLicenseConflict",
                        packages |-> <<ComponentA([status |-> "Conflict",
                                                   conflict_licenses |->
                                                       << <<"MIT", "GPL">> >>])>>]),
       LicenseResponse([status |-> "StackLicenseConflict",
                        conflict_packages |->
                            << << <<"a", "MIT">>, <<"b", "GPL">> >> >>]),
       \* a conflict_packages entry with one key, and one with three
       LicenseResponse([status |-> "StackLicenseConflict",
                        conflict_packages |-> << << <<"a", "MIT">> >> >>]),
       LicenseResponse([status |-> "Successful", stack_license |-> "MIT",
                        conflict_packages |->
                            << << <<"a", "MIT">>, <<"b", "GPL">>, <<"c", "BSD">> >> >>]),
       \* a conflict_licenses pair with one member, in the branch that reads it
       LicenseResponse([status |-> "ComponentLicenseConflict",
                        packages |-> <<ComponentA([status |-> "Conflict",
                                                   conflict_licenses |->
                                                       << <<"MIT">> >>])>>]),
       \* the same pair where no branch reads it
       LicenseResponse([status |-> "Unknown",
                        packages |-> <<ComponentA([status |-> "Unknown",
                                                   unknown_licenses |-> <<"X">>,
                                                   conflict_licenses |->
                                                       << <<"MIT">> >>])>>]) >>

\* ------------------------------------------------------------- the inputs
Deps == {[package |-> "a", version |-> "1"], [package |-> "b", version |-> "1"],
         [package |-> None, version |-> "1"], [package |-> "a", version |-> None]}
RequestIds == {"r1", "r2"}
ManifestFiles == <<"pom.xml", "requirements.txt", "package.json", "build.gradle">>

\* str.lower() on the ecosystem names in use
Lower(ecosystem) == IF ecosystem = "Maven" THEN "maven" ELSE ecosystem

\* result['details'][0] of the i-th manifest; resolved is the key '_resolved'
Manifest(i, deps) ==
    [details |-> <<[resolved |-> deps, ecosystem |-> "Maven",
                    manifest_file |-> ManifestFiles[i],
                    manifest_file_path |-> "/home/project"]>>]
Batch(depLists) == [i \in 1..Len(depLists) |-> Manifest(i, depLists[i])]

\* a batch description without, and with, the current_stack_license hint
Unhinted(ids, batches) ==
    {[external_request_id |-> r, result |-> b] : r \in ids, b \in batches}
Hinted(ids, batches) ==
    {[external_request_id |-> r, result |-> b,
      current_stack_license |-> ("1" :> [f8a_stack_licenses |-> <<"Apache">>])] :
        r \in ids, b \in batches}

\* many manifests of at most one dependency, or one manifest of many dependencies
WideBatches == {Batch(dl) : dl \in SeqsUpTo(SeqsUpTo(Deps, 1), MaxManifests)}
DeepBatches == {Batch(<<ds>>) : ds \in SeqsUpTo(Deps, MaxDeps)}
SmallBatches == {Batch(<<ds>>) : ds \in SeqsUpTo(Deps, 1)}

Invocations(aggregations) ==
    {[aggregated |-> a, persist |-> p] : a \in aggregations, p \in BOOLEAN}

\* ------------------------------------------------------------ the database
\* line 449: INSERT ... ON CONFLICT (id) DO UPDATE SET task_result = ...
\* The table is the list of its rows in insertion order.
Upsert(table, row) ==
    IF \E i \in 1..Len(table) : table[i].id = row.id
    THEN [i \in 1..Len(table) |->
            IF table[i].id = row.id
            THEN [table[i] EXCEPT !.task_result = row.task_result]
            ELSE table[i]]
    ELSE Append(table, row)

\* lines 437-444: the values of the INSERT.  No id is given, so the row takes
\* the next value of the table's primary-key sequence.
InsertValues(id, external_request_id, task_result) ==
    [id |-> id, worker |-> "stack_aggregator_v2", worker_id |-> None,
     external_request_id |-> external_request_id, analysis_id |-> None,
     task_result |-> task_result, error |-> FALSE]

\* ---------------------------------------------------------------- execute
\* line 404
CurrentStackLicense(agg) ==
    Get(Get(agg, "current_stack_license", EmptyDict), "1", EmptyDict)

\* lines 407-410
Details == aggregated.result[mi].details[1]

\* an exception ends the loop instead of moving to the next elem
NextElem_BreakOnException(i, n, o) == IF o.exc THEN n + 1 ELSE i + 1

\* lines 360-388: every branch of the loop body ends in the next elem
NextElem(i, n, o) == i + 1

\* lines 422-432
TaskResult ==
    [stack_data |-> stack_data,
     audit |-> [started_at |-> started_at, ended_at |-> clock, version |-> "v1"],
     release |-> "None:None:None"]

Init ==
    /\ pc = "idle"
    /\ aggregated = EmptyDict /\ persist = FALSE
    /\ mi = 1 /\ di = 1 /\ result = <<>> /\ queryLog = <<>>
    /\ stack_data = <<>> /\ fetched = <<>> /\ licLog = <<>> /\ licCalls = 0
    /\ started_at = 0 /\ ret = <<>> /\ err = None /\ clock = 0
    /\ store = <<>> /\ nextId = 1 /\ writes = 0 /\ prev = <<>>
    /\ calls \in {<<c>> : c \in Invocations(Unhinted({"r1"}, WideBatches \cup DeepBatches)
                                            \cup Hinted({"r1"}, WideBatches \cup DeepBatches))}

\* lines 397-404: execute is entered with the next invocation
Start ==
    /\ pc \in {"idle", "returned", "raised"}
    /\ calls # <<>>
    /\ aggregated' = Head(calls).aggregated
    /\ persist' = Head(calls).persist
    /\ calls' = Tail(calls)
    /\ pc' = IF Len(Head(calls).aggregated.result) = 0 THEN "finish" ELSE "fetch"
    /\ mi' = 1 /\ di' = 1 /\ result' = <<>> /\ queryLog' = <<>>
    /\ stack_data' = <<>> /\ fetched' = <<>> /\ licLog' = <<>>
    /\ licCalls' = 0 /\ writes' = 0
    /\ started_at' = clock /\ clock' = clock + 1
    /\ ret' = <<>> /\ err' = None
    /\ prev' = IF pc = "idle" THEN prev
               ELSE [aggregated |-> aggregated, persist |-> persist,
                     fetched |-> fetched, ret |-> ret, err |-> err]
    /\ UNCHANGED <<store, nextId>>

InFetchLoop == pc = "fetch" /\ di <= Len(Details.resolved)

\* lines 361-363
SkipDep ==
    /\ InFetchLoop
    /\ MissingNameOrVersion(Details.resolved[di])
    /\ queryLog' = Append(queryLog, [elem |-> Details.resolved[di], queried |-> FALSE])
    /\ di' = di + 1
    /\ UNCHANGED <<calls, pc, aggregated, persist, mi, result, stack_data, fetched,
                   licLog, licCalls, started_at, ret, err, clock, store, nextId,
                   writes, prev>>

\* lines 365-388 with the response o
Query(o) ==
    /\ InFetchLoop
    /\ ~MissingNameOrVersion(Details.resolved[di])
    /\ result' = HandleGraphResponse(result, o)
    /\ queryLog' = Append(queryLog, [elem |-> Details.resolved[di], queried |-> TRUE,
                                     response |-> o])
    /\ di' = NextElem(di, Len(Details.resolved), o)
    /\ UNCHANGED <<calls, pc, aggregated, persist, mi, stack_data, fetched, licLog,
                   licCalls, started_at, ret, err, clock, store, nextId, writes, prev>>

QueryException == Query(GraphException)
QueryNon200 == Query(GraphNon200)
QueryNoResult == Query(GraphNoResult)
QueryEmptyData == Query(GraphEmptyData)
QueryFound == \E k \in 1..Len(GraphRecords) : Query(GraphFound(GraphRecords[k]))

\* lines 412-420 once get_dependency_data has returned; o is the license-service
\* outcome when persist.  An AssertionError leaves execute: nothing catches it.
Aggregate(o) ==
    LET finished == [result |-> result]
        out == aggregate_stack_data(finished, Details.manifest_file,
                                    Lower(Details.ecosystem), Details.resolved,
                                    Details.manifest_file_path, persist, o)
        output == [out.data EXCEPT !.user_stack_info.license_analysis =
                       With(@, "current_stack_license", CurrentStackLicense(aggregated))]
    IN  /\ pc = "fetch" /\ di > Len(Details.resolved)
        /\ fetched' = Append(fetched, finished)
        /\ licLog' = Append(licLog, IF persist THEN [called |-> TRUE, outcome |-> o]
                                    ELSE [called |-> FALSE])
        /\ licCalls' = IF persist THEN licCalls + 1 ELSE licCalls
        /\ di' = 1 /\ result' = <<>> /\ queryLog' = <<>>
        /\ IF out.raised
           THEN /\ pc' = "raised" /\ err' = "AssertionError"
                /\ UNCHANGED <<stack_data, mi>>
           ELSE /\ stack_data' = Append(stack_data, output)
                /\ mi' = mi + 1
                /\ pc' = IF mi + 1 > Len(aggregated.result) THEN "finish" ELSE "fetch"
                /\ err' = err
        /\ UNCHANGED <<calls, aggregated, persist, started_at, ret, clock, store,
                       nextId, writes, prev>>

\* with persist=False no request is posted and the outcome argument is not read
AggregateDry == ~persist /\ Aggregate(LicenseTransportFailure)
AggregateLicensed == persist /\ \E k \in 1..Len(LicenseOutcomes) : Aggregate(LicenseOutcomes[k])

\* lines 461-464
ReturnDry ==
    /\ pc = "finish" /\ ~persist
    /\ ret' = [stack_aggregator |-> "success",
               external_request_id |-> Get(aggregated, "external_request_id", None),
               result |-> TaskResult]
    /\ pc' = "returned" /\ clock' = clock + 1
    /\ UNCHANGED <<calls, aggregated, persist, mi, di, result, queryLog, stack_data,
                   fetched, licLog, licCalls, started_at, err, store, nextId, writes,
                   prev>>

\* lines 436-453
PersistAndReturn ==
    /\ pc = "finish" /\ persist
    /\ store' = Upsert(store, InsertValues(nextId,
                                           Get(aggregated, "external_request_id", None),
                                           TaskResult))
    /\ nextId' = nextId + 1 /\ writes' = writes + 1
    /\ ret' = [stack_aggregator |-> "success",
               external_request_id |-> Get(aggregated, "external_request_id", None),
               result |-> TaskResult]
    /\ pc' = "returned" /\ clock' = clock + 1
    /\ UNCHANGED <<calls, aggregated, persist, mi, di, result, queryLog, stack_data,
                   fetched, licLog, licCalls, started_at, err, prev>>

\* lines 454-460: the statement raises SQLAlchemyError and is rolled back
PersistFails ==
    /\ pc = "finish" /\ persist
    /\ ret' = [stack_aggregator |-> "database error",
               external_request_id |-> Get(aggregated, "external_request_id", None),
               message |-> "SQLAlchemyError"]
    /\ pc' = "returned" /\ clock' = clock + 1
    /\ UNCHANGED <<calls, aggregated, persist, mi, di, result, queryLog, stack_data,
                   fetched, licLog, licCalls, started_at, err, store, nextId, writes,
                   prev>>

Next ==
    \/ Start
    \/ SkipDep
    \/ QueryException
    \/ QueryNon200
    \/ QueryNoResult
    \/ QueryEmptyData
    \/ QueryFound
    \/ AggregateDry
    \/ AggregateLicensed
    \/ ReturnDry
    \/ PersistAndReturn
    \/ PersistFails

Spec == Init /\ [][Next]_vars

\* The same worker invoked several times on one batch (a request analysed again),
\* each time with its own request id and persist flag.
InitSeq ==
    /\ pc = "idle"
    /\ aggregated = EmptyDict /\ persist = FALSE
    /\ mi = 1 /\ di = 1 /\ result = <<>> /\ queryLog = <<>>
    /\ stack_data = <<>> /\ fetched = <<>> /\ licLog = <<>> /\ licCalls = 0
    /\ started_at = 0 /\ ret = <<>> /\ err = None /\ clock = 0
    /\ store = <<>> /\ nextId = 1 /\ writes = 0 /\ prev = <<>>
    /\ \E b \in SmallBatches : \E k \in 1..MaxCalls :
          calls \in [1..k -> Invocations(Hinted(RequestIds, {b}))]

SpecSeq == InitSeq /\ [][Next]_vars

\* ------------------------------------------------------------------ claims
\* The view of the i-th report of the invocation in progress.
Info(i) == stack_data[i].user_stack_info
RequestedPairs(i) == {<<d.package, d.version>> : d \in Range(Info(i).dependencies)}
AnalyzedPairs(i) == {<<d.name, d.version>> : d \in Range(Info(i).analyzed_dependencies)}
UnknownPairs(i) == {<<d.name, d.version>> : d \in Info(i).unknown_dependencies}

\* C1 as stated: in every report, whatever the metadata store returned, the
\* analyzed and the unknown (name, version) pairs are disjoint and together are
\* exactly the requested pairs.
C1_UnionIsRequested ==
    \A i \in 1..Len(stack_data) :
        /\ AnalyzedPairs(i) \cup UnknownPairs(i) = RequestedPairs(i)
        /\ AnalyzedPairs(i) \cap UnknownPairs(i) = {}

\* C1 amended: in every report the analyzed and the unknown pairs are disjoint
\* and every requested pair is in one of them; together they are exactly the
\* requested pairs when every record the store returned carries the name and
\* version of a requested dependency of the manifest.
C1_UnionIsRequestedWhenStoreAnswersTheQuery ==
    \A i \in 1..Len(stack_data) :
        /\ AnalyzedPairs(i) \cap UnknownPairs(i) = {}
        /\ RequestedPairs(i) \subseteq AnalyzedPairs(i) \cup UnknownPairs(i)
        /\ AnalyzedPairs(i) \subseteq RequestedPairs(i)
              => AnalyzedPairs(i) \cup UnknownPairs(i) = RequestedPairs(i)

\* a report with an analyzed and an unknown dependency, the store having
\* answered the query
C1_Witness ==
    \E i \in 1..Len(stack_data) :
        /\ AnalyzedPairs(i) # {} /\ UnknownPairs(i) # {}
        /\ AnalyzedPairs(i) \subseteq RequestedPairs(i)

\* lines 375-382 read from the log: the query appended a record
Successful(entry) ==
    /\ entry.queried
    /\ ~entry.response.exc
    /\ entry.response.status_code = 200
    /\ "result" \in DOMAIN entry.response.body
    /\ Len(entry.response.body.result.data) > 0

RECURSIVE RecordsOf(_)
\* the records of the successful queries of a log, in request order
RecordsOf(log) ==
    IF Len(log) = 0 THEN <<>>
    ELSE IF Successful(Head(log))
         THEN <<Head(log).response.body.result>> \o RecordsOf(Tail(log))
         ELSE RecordsOf(Tail(log))

\* C2: in get_dependency_data every elem up to the current one has been
\* handled, failed or not: an elem is queried exactly when it has a name and a
\* version, whatever happened to the elems before it, and the list collected
\* holds exactly the records of the successful queries, in request order and
\* without deduplication; so when the loop ends every elem has been handled.
C2_FailureDoesNotStopLoop ==
    pc = "fetch" =>
        /\ di = Len(queryLog) + 1
        /\ di <= Len(Details.resolved) + 1
        /\ \A i \in 1..Len(queryLog) :
              /\ queryLog[i].elem = Details.resolved[i]
              /\ queryLog[i].queried = ~MissingNameOrVersion(Details.resolved[i])
        /\ result = RecordsOf(queryLog)

\* the loop has ended after a failed query followed by a successful one
C2_Witness ==
    /\ pc = "fetch" /\ di > Len(Details.resolved)
    /\ \E i \in 1..Len(queryLog) : \E j \in 1..Len(queryLog) :
          /\ i < j
          /\ queryLog[i].queried /\ ~Successful(queryLog[i])
          /\ Successful(queryLog[j])

\* C3 as stated: no exception leaves execute, and what it returns is an
\* envelope with the outcome tag and either the report or an error message.
C3_NeverRaisesPastBoundary ==
    /\ pc # "raised"
    /\ err = None
    /\ pc = "returned" =>
          /\ "stack_aggregator" \in DOMAIN ret
          /\ ("result" \in DOMAIN ret) # ("message" \in DOMAIN ret)

\* C4 as stated: when execute ends, whatever failed on the way, stack_data holds
\* one report per manifest of the batch, in the order of the batch.
C4_OneReportPerManifest ==
    pc \in {"returned", "raised"} =>
        /\ Len(stack_data) = Len(aggregated.result)
        /\ \A i \in 1..Len(stack_data) :
              stack_data[i].manifest_name = aggregated.result[i].details[1].manifest_file

\* the license-service call of the i-th manifest failed at the transport level
TransportFailed(i) == licLog[i].called /\ licLog[i].outcome.exc

\* C5: a report whose license-service call failed at the transport level has
\* status None and empty stack-license, unknown-license, conflict-package and
\* outlier lists, and none of its analyzed dependencies has a license_analysis.
C5_TransportFailureMeansNoLicenseAnalysis ==
    \A i \in 1..Len(stack_data) :
        TransportFailed(i) =>
            /\ Info(i).license_analysis.status = None
            /\ Len(Info(i).license_analysis.f8a_stack_licenses) = 0
            /\ DOMAIN Info(i).license_analysis.unknown_licenses = {}
            /\ Len(Info(i).license_analysis.conflict_packages) = 0
            /\ Len(Info(i).license_analysis.outlier_packages) = 0
            /\ \A k \in 1..Len(Info(i).analyzed_dependencies) :
                  "license_analysis" \notin DOMAIN Info(i).analyzed_dependencies[k]

\* a report with an analyzed dependency whose license-service call failed
C5_Witness ==
    \E i \in 1..Len(stack_data) :
        TransportFailed(i) /\ Len(Info(i).analyzed_dependencies) > 0

\* the stack-license list the license-service outcome of the i-th manifest gives
ResolvedStackLicenses(i) ==
    IF licLog[i].outcome.exc THEN <<>>
    ELSE IF "stack_license" \in DOMAIN licLog[i].outcome.json
         THEN <<licLog[i].outcome.json.stack_license>>
         ELSE <<>>

\* C6: in every report, stack_license_conflict is true exactly when the
\* stack-license list derived from the service response is empty (a transport
\* failure included) when license analysis ran, and None when it was skipped.
C6_ConflictIffNoStackLicense ==
    \A i \in 1..Len(stack_data) :
        IF persist
        THEN /\ licLog[i].called
             /\ Info(i).license_analysis.f8a_stack_licenses = ResolvedStackLicenses(i)
             /\ Info(i).stack_license_conflict = <<Len(ResolvedStackLicenses(i)) = 0>>
        ELSE /\ ~licLog[i].called
             /\ Info(i).stack_license_conflict = <<>>

\* an invocation with a report whose license analysis resolved a stack license
\* and a report whose license analysis did not
C6_Witness ==
    \E i \in 1..Len(stack_data) :
        /\ persist
        /\ Info(i).stack_license_conflict = <<FALSE>>
        /\ \E j \in 1..Len(stack_data) : Info(j).stack_license_conflict = <<TRUE>>

\* a conflict_packages entry of the response without exactly two keys
MalformedConflictEntry(body) ==
    \E i \in 1..Len(Get(body, "conflict_packages", <<>>)) :
        Len(body.conflict_packages[i]) # 2

\* a conflict_licenses pair without exactly two members, in any component
MalformedPairAnywhere(body) ==
    \E i \in 1..Len(Get(body, "packages", <<>>)) :
        \E j \in 1..Len(ConflictPairsOf(body.packages[i])) :
            Len(ConflictPairsOf(body.packages[i])[j]) # 2

\* such a pair in a component with status Conflict of a response with status
\* ComponentLicenseConflict
MalformedPairInConflictBranch(body) ==
    /\ Get(body, "status", "") = "ComponentLicenseConflict"
    /\ \E i \in 1..Len(Get(body, "packages", <<>>)) :
          /\ Get(Get(body.packages[i], "license_analysis", EmptyDict), "status", "")
                 = "Conflict"
          /\ \E j \in 1..Len(ConflictPairsOf(body.packages[i])) :
                Len(ConflictPairsOf(body.packages[i])[j]) # 2

\* the license-service call of the i-th manifest ended the invocation with an
\* AssertionError: no report for the manifest, no envelope, nothing written
FatalAt(i) ==
    /\ pc = "raised" /\ err = "AssertionError"
    /\ i = Len(licLog) /\ Len(stack_data) = i - 1
    /\ DOMAIN ret = {} /\ writes = 0

\* C7 as stated: a response with a conflict_packages entry without exactly two
\* keys, or with a conflict_licenses pair without exactly two members, is
\* fatal to the aggregation and leaves as an AssertionError.
C7_MalformedIsFatal ==
    \A i \in 1..Len(licLog) :
        (/\ licLog[i].called /\ ~licLog[i].outcome.exc
         /\ \/ MalformedConflictEntry(licLog[i].outcome.json)
            \/ MalformedPairAnywhere(licLog[i].outcome.json))
        => FatalAt(i)

\* C7 amended: a conflict_packages entry without exactly two keys, or a
\* conflict_licenses pair without exactly two members in a component with status
\* Conflict of a response with status ComponentLicenseConflict, is fatal to the
\* aggregation and leaves as an AssertionError, which neither a transport nor a
\* persistence failure does; a malformed pair anywhere else is not read.
C7_MalformedWhereReadIsFatal ==
    /\ \A i \in 1..Len(licLog) :
          (/\ licLog[i].called /\ ~licLog[i].outcome.exc
           /\ \/ MalformedConflictEntry(licLog[i].outcome.json)
              \/ MalformedPairInConflictBranch(licLog[i].outcome.json))
          <=> FatalAt(i)
    /\ pc = "raised" => FatalAt(Len(licLog))
    /\ \A i \in 1..Len(stack_data) :
          /\ licLog[i].called => Len(Info(i).license_analysis.conflict_packages)
                                   = Len(Get(licLog[i].outcome.json,
                                             "conflict_packages", <<>>))

\* the invocation ended on a conflict_packages entry with three keys
C7_Witness ==
    /\ FatalAt(Len(licLog))
    /\ \E k \in 1..Len(licLog[Len(licLog)].outcome.json.conflict_packages) :
          Len(licLog[Len(licLog)].outcome.json.conflict_packages[k]) > 2

\* C8 as stated: the table holds at most one row per external request id, and
\* after a successful persisting invocation that row holds its result.
C8_OneResultPerRequestId ==
    /\ \A i \in 1..Len(store) : \A j \in 1..Len(store) :
          store[i].external_request_id = store[j].external_request_id => i = j
    /\ (pc = "returned" /\ persist /\ "result" \in DOMAIN ret) =>
          \E i \in 1..Len(store) :
              /\ store[i].external_request_id = ret.external_request_id
              /\ store[i].task_result = ret.result

\* the keys of user_stack_info (lines 340-352)
UserStackInfoKeys ==
    {"ecosystem", "analyzed_dependencies_count", "analyzed_dependencies",
     "unknown_dependencies", "unknown_dependencies_count", "recommendation_ready",
     "total_licenses", "distinct_licenses", "stack_license_conflict", "dependencies",
     "license_analysis"}

\* C9: an invocation with persist=False posts nothing to the license service
\* and writes nothing to the table; the envelope it returns holds one report per
\* manifest with every key of user_stack_info, stack_license_conflict None and
\* no license facet in license_analysis.
C9_DryRunTouchesNothing ==
    (pc # "idle" /\ ~persist) =>
        /\ licCalls = 0
        /\ writes = 0
        /\ \A i \in 1..Len(licLog) : ~licLog[i].called
        /\ pc = "returned" =>
              /\ ret.stack_aggregator = "success"
              /\ Len(ret.result.stack_data) = Len(aggregated.result)
              /\ \A i \in 1..Len(ret.result.stack_data) :
                    LET info == ret.result.stack_data[i].user_stack_info
                    IN  /\ DOMAIN info = UserStackInfoKeys
                        /\ info.stack_license_conflict = <<>>
                        /\ DOMAIN info.license_analysis = {"current_stack_license"}
                        /\ \A k \in 1..Len(info.analyzed_dependencies) :
                              "license_analysis" \notin DOMAIN info.analyzed_dependencies[k]

\* a dry run has returned the report of a manifest with an analyzed dependency
C9_Witness ==
    /\ pc = "returned" /\ ~persist
    /\ \E i \in 1..Len(ret.result.stack_data) :
          Len(ret.result.stack_data[i].user_stack_info.analyzed_dependencies) > 0

\* The invocation that has just returned a report ran with persist=True on the
\* input and the metadata-store answers of the previous one, which ran with
\* persist=False and returned a report too.
SameRunPersisted ==
    /\ pc = "returned" /\ persist /\ "result" \in DOMAIN ret
    /\ DOMAIN prev # {}
    /\ ~prev.persist /\ "result" \in DOMAIN prev.ret
    /\ prev.aggregated = aggregated
    /\ prev.fetched = fetched

\* C10 as stated: the two runs give the same user_stack_info for every manifest.
C10_SameUserStackInfo ==
    SameRunPersisted =>
        /\ Len(prev.ret.result.stack_data) = Len(ret.result.stack_data)
        /\ \A i \in 1..Len(ret.result.stack_data) :
              prev.ret.result.stack_data[i].user_stack_info
                  = ret.result.stack_data[i].user_stack_info

\* a component summary without the license_analysis the license step attaches
WithoutLicenseAnalysis(dep) == [f \in DOMAIN dep \ {"license_analysis"} |-> dep[f]]

\* a report without its license fields: stack_license_conflict, license_analysis
\* and the license_analysis of each analyzed dependency
WithoutLicenseFields(report) ==
    [manifest_name |-> report.manifest_name,
     manifest_file_path |-> report.manifest_file_path,
     user_stack_info |->
        [f \in UserStackInfoKeys \ {"stack_license_conflict", "license_analysis"} |->
            IF f = "analyzed_dependencies"
            THEN [k \in 1..Len(report.user_stack_info.analyzed_dependencies) |->
                     WithoutLicenseAnalysis(report.user_stack_info.analyzed_dependencies[k])]
            ELSE report.user_stack_info[f]]]

\* C10 amended: when both runs return a report, the two reports of every
\* manifest agree on every field but the license fields (stack_license_conflict,
\* license_analysis and the license_analysis attached to analyzed dependencies),
\* unknown_dependencies and distinct_licenses being compared as sets; the
\* envelopes carry the same outcome tag, request id, release and schema version.
C10_SameUserStackInfoButLicenseFields ==
    SameRunPersisted =>
        /\ Len(prev.ret.result.stack_data) = Len(ret.result.stack_data)
        /\ \A i \in 1..Len(ret.result.stack_data) :
              /\ DOMAIN prev.ret.result.stack_data[i].user_stack_info = UserStackInfoKeys
              /\ DOMAIN ret.result.stack_data[i].user_stack_info = UserStackInfoKeys
              /\ WithoutLicenseFields(prev.ret.result.stack_data[i])
                    = WithoutLicenseFields(ret.result.stack_data[i])
        /\ prev.ret.stack_aggregator = ret.stack_aggregator
        /\ prev.ret.external_request_id = ret.external_request_id
        /\ prev.ret.result.release = ret.result.release
        /\ prev.ret.result.audit.version = ret.result.audit.version

\* the persisted run attached a license_analysis to one analyzed dependency and
\* left another without
C10_Witness ==
    /\ SameRunPersisted
    /\ \E i \in 1..Len(ret.result.stack_data) :
          /\ \E k \in 1..Len(ret.result.stack_data[i].user_stack_info.analyzed_dependencies) :
                "license_analysis" \in
                    DOMAIN ret.result.stack_data[i].user_stack_info.analyzed_dependencies[k]
          /\ ret.result.stack_data[i].user_stack_info.stack_license_conflict = <<FALSE>>

\* the unknown-license interpretation is the dict of the two buckets
HasTwoBuckets(unknown_licenses) ==
    DOMAIN unknown_licenses = {"really_unknown", "component_conflict"}

\* C11 as stated: whatever the license service did for a manifest, an empty
\* response and no response included, unknown_licenses of its report is a
\* record of the two lists really_unknown and component_conflict, the first
\* non-empty only under the top-level status Unknown and the second only under
\* ComponentLicenseConflict.
C11_UnknownLicensesHasTwoBuckets ==
    \A i \in 1..Len(stack_data) :
        licLog[i].called =>
            /\ HasTwoBuckets(Info(i).license_analysis.unknown_licenses)
            /\ Len(Info(i).license_analysis.unknown_licenses.really_unknown) > 0
                  => Get(licLog[i].outcome.json, "status", "") = "Unknown"
            /\ Len(Info(i).license_analysis.unknown_licenses.component_conflict) > 0
                  => Get(licLog[i].outcome.json, "status", "") = "ComponentLicenseConflict"

====
